---- MODULE Spec2Model ----
(***************************************************************************)
(* Model of src/probability.py: deduction of joint probabilities of        *)
(* boolean variables by the complement rule and the partition rule,        *)
(* iterated to a fixed point (function solve).                             *)
(*                                                                         *)
(* Values: the program computes with Python floats.  The model computes    *)
(* with integers (exact arithmetic, One is the probability of the sure     *)
(* event); floating-point rounding is not modelled.                        *)
(*                                                                         *)
(* Variable equality: Variable.__eq__ compares hash(str(v)); the model     *)
(* takes two Variables to be equal iff their strings are equal (a          *)
(* collision of two string hashes is not modelled).                        *)
(***************************************************************************)
EXTENDS Integers, Sequences, FiniteSets, TLC

(* ---------------------------- bounds ----------------------------------- *)

\* largest number of rows of input_data (specification Spec: one or two
\* declared variables)
MaxInput == 3
\* largest number of rows of input_data (specification SpecWide: up to three
\* declared variables)
MaxInputWide == 1
\* largest number of rows of input_data (specification SpecOrder: two
\* declared variables, well-formed rows)
MaxInputOrder == 4
\* largest number of rows of input_data (specification SpecGroup: three
\* declared variables, rows about one variable and its three-literal
\* statements)
MaxInputGroup == 4
\* largest number of rows of input_data (specification SpecShape: up to three
\* declared variables, rows about single variables)
MaxInputShape == 1
\* largest number of rows of input_data (specification SpecDup: rows that may
\* give a statement more than once)
MaxInputDup == 2

\* the literal 1 of "1-known[statement]" (probability of the sure event)
One == 1

\* the values of input rows: the integers that are probabilities
Values == 0..One

\* the lists of declared variable tokens solve is run on
SymbolLists == {<<"A">>, <<"A", "B">>}
SymbolListsWide == {<<"A">>, <<"A", "B">>, <<"A", "B", "C">>}

(* ---------------------------- Variable --------------------------------- *)

\* Variable.__init__
Variable(token, negation) == [token |-> token, negation |-> negation]

\* Variable.__invert__
Invert(v) == Variable(v.token, ~v.negation)

\* Variable.__str__
Str(v) == IF v.negation THEN "!" \o v.token ELSE v.token

\* Variable.__eq__ / __hash__ between two Variables
VarEq(v, w) == Str(v) = Str(w)

\* Variable.is_exclusion
IsExclusion(v) == v.negation

(* ---------------------------- Statement -------------------------------- *)

\* the strings of the members of a statement: what hash and equality of the
\* frozenset of Variables depend on
StrSet(s) == {Str(v) : v \in s}

\* Statement.__eq__ : equality of the frozensets, members compared by VarEq
StmtEq(s, t) == StrSet(s) = StrSet(t)

\* Statement.__contains__ with a Variable argument: other in self.variables
HasVar(self, v) == \E e \in self : VarEq(e, v)

\* Statement.__contains__ with a Statement argument, "other in self":
\* all(e in other for e in self)
Contains(self, other) == \A e \in self : HasVar(other, e)

\* Statement.is_valid : all(~e not in self for e in self)
IsValid(self) == \A e \in self : ~HasVar(self, Invert(e))

(* ---------------------------- parsing ---------------------------------- *)

\* process_input_row, parse_symbols: every token of the row, "!A" included,
\* becomes Variable(token) with negation False
ParseSymbols(tokens) == {Variable(t, FALSE) : t \in tokens}

(* ---------------------------- universe --------------------------------- *)

\* all_symbols = symbols + [~s for s in symbols]
AllSymbols(symbols) ==
    [i \in 1..(2 * Len(symbols)) |->
        IF i <= Len(symbols) THEN Variable(symbols[i], FALSE)
        ELSE Invert(Variable(symbols[i - Len(symbols)], FALSE))]

Min(S) == CHOOSE x \in S : \A y \in S : x <= y

\* order of the tuples produced by powerset(): by size r, and for one r the
\* order of itertools.combinations (lexicographic in the positions)
ComboBefore(X, Y) ==
    \/ Cardinality(X) < Cardinality(Y)
    \/ /\ Cardinality(X) = Cardinality(Y)
       /\ X # Y
       /\ Min((X \ Y) \cup (Y \ X)) \in X

\* faulty variant of Powerset: minimum=0, the empty tuple is produced too
PowersetFromEmpty(n) ==
    LET combos == SUBSET (1..n)
        rank(X) == Cardinality({Y \in combos : ComboBefore(Y, X)}) + 1
    IN  [i \in 1..Cardinality(combos) |-> CHOOSE X \in combos : rank(X) = i]

\* powerset(iterable, minimum=1): the position sets of the tuples, in order
Powerset(n) ==
    LET combos == {X \in SUBSET (1..n) : X # {}}
        rank(X) == Cardinality({Y \in combos : ComboBefore(Y, X)}) + 1
    IN  [i \in 1..Cardinality(combos) |-> CHOOSE X \in combos : rank(X) = i]

\* all_statements = [v for v in (Statement(v) for v in powerset(all_symbols))
\*                   if v.is_valid()]
AllStatementsOf(symbols) ==
    LET syms == AllSymbols(symbols)
        ps == Powerset(Len(syms))
        stmts == [i \in 1..Len(ps) |-> {syms[j] : j \in ps[i]}]
    IN  SelectSeq(stmts, IsValid)

Range(seq) == {seq[i] : i \in 1..Len(seq)}

\* faulty variant of ChildrenOf: the two containment tests exchanged, the
\* sub-statements of y recorded in children[y]
ChildrenOfSubsets(stmts) ==
    [y \in Range(stmts) |->
        {x \in Range(stmts) : ~StmtEq(x, y) /\ Contains(x, y)}]

\* faulty variant of ChildrenOf: the second test, "y in x", left out; x
\* comes before y in all_statements
ChildrenOfFirstTest(stmts) ==
    [y \in Range(stmts) |->
        {x \in Range(stmts) :
            /\ ~StmtEq(x, y) /\ Contains(y, x)
            /\ \E i, j \in 1..Len(stmts) : i < j /\ stmts[i] = x /\ stmts[j] = y}]

\* children: for x, y in combinations(all_statements, 2): x != y and "x in y"
\* (y.__contains__(x)) records x in children[y]; "y in x" records y in
\* children[x]; every statement is a key
ChildrenOf(stmts) ==
    [y \in Range(stmts) |->
        {x \in Range(stmts) : ~StmtEq(x, y) /\ Contains(y, x)}]

(* ---------------------------- known-value mapping ---------------------- *)

\* the dict known: a function whose domain is the set of key objects; keys
\* are looked up by hash and equality, that is up to StmtEq
EmptyDict == [k \in {} |-> 0]

\* "s in known"
Has(dict, s) == \E k \in DOMAIN dict : StmtEq(k, s)

KeyOf(dict, s) == CHOOSE k \in DOMAIN dict : StmtEq(k, s)

\* known[s]
Get(dict, s) == dict[KeyOf(dict, s)]

\* known[s] = v : an equal key keeps its key object and takes the new value,
\* a new key is inserted
Put(dict, s, v) ==
    IF Has(dict, s) THEN [dict EXCEPT ![KeyOf(dict, s)] = v]
    ELSE [k \in DOMAIN dict \cup {s} |-> IF k = s THEN v ELSE dict[k]]

RECURSIVE RecordRowsFirstWins(_, _, _)
\* faulty variant of RecordRows: a statement that has a value keeps it
RecordRowsFirstWins(dict, rows, i) ==
    IF i > Len(rows) THEN dict
    ELSE IF Has(dict, rows[i][1]) THEN RecordRowsFirstWins(dict, rows, i + 1)
    ELSE RecordRowsFirstWins(Put(dict, rows[i][1], rows[i][2]), rows, i + 1)

\* for s, value in input_data: known[Statement(s)] = value
RECURSIVE RecordRows(_, _, _)
RecordRows(dict, rows, i) ==
    IF i > Len(rows) THEN dict
    ELSE RecordRows(Put(dict, rows[i][1], rows[i][2]), rows, i + 1)

RECURSIVE SumOf(_, _)
\* sum(known[expr] for expr in exprs)
SumOf(dict, exprs) ==
    IF exprs = {} THEN 0
    ELSE LET e == CHOOSE e \in exprs : TRUE
         IN  Get(dict, e) + SumOf(dict, exprs \ {e})

(* ---------------------------- the two rules ---------------------------- *)

\* the only member of a single-literal statement: list(statement.variables)[0]
Only(statement) == CHOOSE v \in statement : TRUE

\* Statement([inverted_symbol]) for a single-literal statement
InverseOf(statement) == {Invert(Only(statement))}

\* faulty variant of Updates: updates[s] = known[statement]
UpdatesSameValue(dict) ==
    {<<InverseOf(st), dict[st]>> :
        st \in {k \in DOMAIN dict :
                  Cardinality(k) = 1 /\ ~Has(dict, InverseOf(k))}}

\* faulty variant of Updates: the test "s not in known" left out
UpdatesOfAll(dict) ==
    {<<InverseOf(st), One - dict[st]>> :
        st \in {k \in DOMAIN dict : Cardinality(k) = 1}}

\* faulty variant of Updates: the operands of the subtraction exchanged
UpdatesOperandsSwapped(dict) ==
    {<<InverseOf(st), dict[st] - One>> :
        st \in {k \in DOMAIN dict :
                  Cardinality(k) = 1 /\ ~Has(dict, InverseOf(k))}}

\* the dict updates of one pass of the complement rule: for every known
\* statement of one literal whose inverse s is not in known,
\* updates[s] = 1-known[statement]
Updates(dict) ==
    {<<InverseOf(st), One - dict[st]>> :
        st \in {k \in DOMAIN dict :
                  Cardinality(k) = 1 /\ ~Has(dict, InverseOf(k))}}

RECURSIVE Update(_, _)
\* known.update(updates)
Update(dict, updates) ==
    IF updates = {} THEN dict
    ELSE LET u == CHOOSE u \in updates : TRUE
         IN  Update(Put(dict, u[1], u[2]), updates \ {u})

\* what print reports of a deduction: the rule, the statement solved, its
\* value, and for the partition rule the parent and the span list
Step(rule, stmt, value, parent, span) ==
    [rule |-> rule, stmt |-> stmt, value |-> value, parent |-> parent,
     span |-> span]

\* "Solved by inverse" lines of one pass
InverseSteps(dict) ==
    {Step("inverse", u[1], u[2], {}, {}) : u \in Updates(dict)}

\* faulty variant of SpanOf: the literals taken as they are, not in their
\* asserted form
SpanOfRaw(g) == StrSet(g)

\* span = frozenset(s if not s.is_exclusion() else ~s for s in g)
SpanOf(g) == StrSet({IF IsExclusion(s) THEN Invert(s) ELSE s : s \in g})

\* faulty variant of SpansOf: a parent without children gets one span list,
\* the empty one
SpansOfWithEmpty(kids, parent) ==
    IF kids[parent] = {} THEN {{}}
    ELSE {{c \in kids[parent] :
             Cardinality(c) = Cardinality(g) /\ SpanOf(c) = SpanOf(g)} :
          g \in kids[parent]}

\* the span lists built for one parent: children[parent] grouped by
\* len(s.variables), then by SpanOf; each list is modelled as a set
SpansOf(kids, parent) ==
    {{c \in kids[parent] :
        Cardinality(c) = Cardinality(g) /\ SpanOf(c) = SpanOf(g)} :
     g \in kids[parent]}

\* faulty variants of SolveSpan:
\* union mode without the test "parent not in known"
SolveSpanOverwrite(dict, parent, span) ==
    LET unknowns == {expr \in span : ~Has(dict, expr)}
    IN  IF Has(dict, parent) /\ Cardinality(unknowns) = 1
        THEN LET unknown == CHOOSE e \in unknowns : TRUE
                 total == SumOf(dict, {expr \in span : ~StmtEq(expr, unknown)})
                 value == Get(dict, parent) - total
             IN  [known |-> Put(dict, unknown, value),
                  has_changed |-> TRUE,
                  steps |-> {Step("difference", unknown, value, parent, span)}]
        ELSE IF unknowns = {}
        THEN LET total == SumOf(dict, span)
             IN  [known |-> Put(dict, parent, total),
                  has_changed |-> TRUE,
                  steps |-> {Step("union", parent, total, parent, span)}]
        ELSE [known |-> dict, has_changed |-> FALSE, steps |-> {}]

\* no union mode
SolveSpanNoUnion(dict, parent, span) ==
    LET unknowns == {expr \in span : ~Has(dict, expr)}
    IN  IF Has(dict, parent) /\ Cardinality(unknowns) = 1
        THEN LET unknown == CHOOSE e \in unknowns : TRUE
                 total == SumOf(dict, {expr \in span : ~StmtEq(expr, unknown)})
                 value == Get(dict, parent) - total
             IN  [known |-> Put(dict, unknown, value),
                  has_changed |-> TRUE,
                  steps |-> {Step("difference", unknown, value, parent, span)}]
        ELSE [known |-> dict, has_changed |-> FALSE, steps |-> {}]

\* difference mode (flag TRUE) or union mode (flag FALSE) without
\* "has_changed = True"
SolveSpanNoFlag(dict, parent, span, inDifference) ==
    LET unknowns == {expr \in span : ~Has(dict, expr)}
    IN  IF Has(dict, parent) /\ Cardinality(unknowns) = 1
        THEN LET unknown == CHOOSE e \in unknowns : TRUE
                 total == SumOf(dict, {expr \in span : ~StmtEq(expr, unknown)})
                 value == Get(dict, parent) - total
             IN  [known |-> Put(dict, unknown, value),
                  has_changed |-> ~inDifference,
                  steps |-> {Step("difference", unknown, value, parent, span)}]
        ELSE IF ~Has(dict, parent) /\ unknowns = {}
        THEN LET total == SumOf(dict, span)
             IN  [known |-> Put(dict, parent, total),
                  has_changed |-> inDifference,
                  steps |-> {Step("union", parent, total, parent, span)}]
        ELSE [known |-> dict, has_changed |-> FALSE, steps |-> {}]

\* difference mode without the subtraction of total
SolveSpanDifferenceNoTotal(dict, parent, span) ==
    LET unknowns == {expr \in span : ~Has(dict, expr)}
    IN  IF Has(dict, parent) /\ Cardinality(unknowns) = 1
        THEN LET unknown == CHOOSE e \in unknowns : TRUE
                 value == Get(dict, parent)
             IN  [known |-> Put(dict, unknown, value),
                  has_changed |-> TRUE,
                  steps |-> {Step("difference", unknown, value, parent, span)}]
        ELSE IF ~Has(dict, parent) /\ unknowns = {}
        THEN LET total == SumOf(dict, span)
             IN  [known |-> Put(dict, parent, total),
                  has_changed |-> TRUE,
                  steps |-> {Step("union", parent, total, parent, span)}]
        ELSE [known |-> dict, has_changed |-> FALSE, steps |-> {}]

\* union mode with the members counted instead of their values summed
SolveSpanUnionCounts(dict, parent, span) ==
    LET unknowns == {expr \in span : ~Has(dict, expr)}
    IN  IF Has(dict, parent) /\ Cardinality(unknowns) = 1
        THEN LET unknown == CHOOSE e \in unknowns : TRUE
                 total == SumOf(dict, {expr \in span : ~StmtEq(expr, unknown)})
                 value == Get(dict, parent) - total
             IN  [known |-> Put(dict, unknown, value),
                  has_changed |-> TRUE,
                  steps |-> {Step("difference", unknown, value, parent, span)}]
        ELSE IF ~Has(dict, parent) /\ unknowns = {}
        THEN LET total == Cardinality(span)
             IN  [known |-> Put(dict, parent, total),
                  has_changed |-> TRUE,
                  steps |-> {Step("union", parent, total, parent, span)}]
        ELSE [known |-> dict, has_changed |-> FALSE, steps |-> {}]

\* difference mode entered with any number of unknowns, the first of them
\* solved from the members that are known
SolveSpanDifferenceAnyUnknown(dict, parent, span) ==
    LET unknowns == {expr \in span : ~Has(dict, expr)}
    IN  IF Has(dict, parent) /\ Cardinality(unknowns) >= 1
        THEN LET unknown == CHOOSE e \in unknowns : TRUE
                 total == SumOf(dict, span \ unknowns)
                 value == Get(dict, parent) - total
             IN  [known |-> Put(dict, unknown, value),
                  has_changed |-> TRUE,
                  steps |-> {Step("difference", unknown, value, parent, span)}]
        ELSE IF ~Has(dict, parent) /\ unknowns = {}
        THEN LET total == SumOf(dict, span)
             IN  [known |-> Put(dict, parent, total),
                  has_changed |-> TRUE,
                  steps |-> {Step("union", parent, total, parent, span)}]
        ELSE [known |-> dict, has_changed |-> FALSE, steps |-> {}]

SolveSpanDifferenceNoFlag(dict, parent, span) ==
    SolveSpanNoFlag(dict, parent, span, TRUE)

SolveSpanUnionNoFlag(dict, parent, span) ==
    SolveSpanNoFlag(dict, parent, span, FALSE)

\* the body of "for span in spans.values()" for one span list: difference
\* mode, union mode, or no deduction
SolveSpan(dict, parent, span) ==
    LET unknowns == {expr \in span : ~Has(dict, expr)}
    IN  IF Has(dict, parent) /\ Cardinality(unknowns) = 1
        THEN LET unknown == CHOOSE e \in unknowns : TRUE
                 total == SumOf(dict, {expr \in span : ~StmtEq(expr, unknown)})
                 value == Get(dict, parent) - total
             IN  [known |-> Put(dict, unknown, value),
                  has_changed |-> TRUE,
                  steps |-> {Step("difference", unknown, value, parent, span)}]
        ELSE IF ~Has(dict, parent) /\ unknowns = {}
        THEN LET total == SumOf(dict, span)
             IN  [known |-> Put(dict, parent, total),
                  has_changed |-> TRUE,
                  steps |-> {Step("union", parent, total, parent, span)}]
        ELSE [known |-> dict, has_changed |-> FALSE, steps |-> {}]

RECURSIVE SolveSpans(_, _, _)
\* lines 152-192 for one parent: its span lists are evaluated one after the
\* other, lists of fewer literals first
SolveSpans(r, parent, left) ==
    IF left = {} THEN r
    ELSE LET span == CHOOSE g \in left : \A other \in left :
                        Cardinality(Only(g)) <= Cardinality(Only(other))
             one == SolveSpan(r.known, parent, span)
         IN  SolveSpans([known |-> one.known,
                         has_changed |-> r.has_changed \/ one.has_changed],
                        parent, left \ {span})

RECURSIVE SolveParents(_, _, _, _)
\* lines 149-192: the for loop over the parents, visited in the given order
SolveParents(r, order, i, kids) ==
    IF i > Len(order) THEN r
    ELSE SolveParents(SolveSpans(r, order[i], SpansOf(kids, order[i])),
                      order, i + 1, kids)

\* lines 132-192: one pass of the while loop
OnePass(dict, order, kids) ==
    SolveParents([known |-> Update(dict, Updates(dict)),
                  has_changed |-> Updates(dict) # {}], order, 1, kids)

RECURSIVE Propagate(_, _, _)
\* lines 130-192: the while loop, run until a pass changes nothing
Propagate(dict, order, kids) ==
    LET r == OnePass(dict, order, kids)
    IN  IF r.has_changed THEN Propagate(r.known, order, kids) ELSE r.known

\* reversed(all_statements)
Reversed(seq) == [i \in 1..Len(seq) |-> seq[Len(seq) + 1 - i]]

\* known.get(to_solve, "Not enough information"); a value v is <<v>>
NotEnoughInformation == <<>>
Lookup(dict, s) == IF Has(dict, s) THEN <<Get(dict, s)>> ELSE NotEnoughInformation

(* ---------------------------- inputs ----------------------------------- *)

\* the statement of an input row that names the universe statement u
Parsed(u) == ParseSymbols(StrSet(u))

\* the statements of input rows and queries: every universe statement as the
\* parser reads it, and the malformed row "x & !x" for the first variable x
InputStatementsOver(stmts, syms) ==
    {Parsed(u) : u \in Range(stmts)}
      \cup {ParseSymbols({syms[1], "!" \o syms[1]})}

InputStatements(syms) == InputStatementsOver(AllStatementsOf(syms), syms)

RECURSIVE RowSets(_, _)
\* the sets of at most k rows over distinct statements of S
RowSets(S, k) ==
    IF k = 0 THEN {{}}
    ELSE LET smaller == RowSets(S, k - 1)
         IN  smaller \cup
             {R \cup {<<s, v>>} : R \in smaller, s \in S, v \in Values}

RECURSIVE SetToSeq(_)
SetToSeq(S) ==
    IF S = {} THEN <<>>
    ELSE LET x == CHOOSE x \in S : TRUE IN <<x>> \o SetToSeq(S \ {x})

DistinctStatements(R) == \A r1, r2 \in R : r1[1] = r2[1] => r1 = r2

\* the lists of at most k rows, no statement given twice
InputRows(syms, k) ==
    {SetToSeq(R) :
       R \in {Q \in RowSets(InputStatements(syms), k) : DistinctStatements(Q)}}

(* ---------------------------- state ------------------------------------ *)

VARIABLES
    symbols,         \* solve's argument: the declared variable tokens
    input_data,      \* solve's argument: rows (statement, value)
    to_solve,        \* solve's argument: the query, set when it is read
    known,           \* the dict known
    all_statements,  \* the list all_statements
    children,        \* the dict children
    has_changed,     \* the flag of the while loop
    parents,         \* the order in which the for loop visits the parents
    pidx,            \* position of the current parent in parents
    spans,           \* span lists of the current parent not yet evaluated
    passes,          \* number of passes of the while loop begun
    before,          \* history: known when the current pass began
    steps,           \* the deductions printed so far
    answer,          \* the value printed under "Solution:"
    pc               \* position in solve

vars == <<symbols, input_data, to_solve, known, all_statements, children,
          has_changed, parents, pidx, spans, passes, before, steps, answer,
          pc>>

InitWith(lists, k) ==
    /\ symbols \in lists
    /\ input_data \in InputRows(symbols, k)
    /\ to_solve = {}
    /\ known = EmptyDict
    /\ all_statements = <<>>
    /\ children = EmptyDict
    /\ has_changed = TRUE
    /\ parents = <<>>
    /\ pidx = 0
    /\ spans = {}
    /\ passes = 0
    /\ before = EmptyDict
    /\ steps = {}
    /\ answer = NotEnoughInformation
    /\ pc = "record"

Init == InitWith(SymbolLists, MaxInput)

InitWide == InitWith(SymbolListsWide, MaxInputWide)

\* two variables and well-formed rows only: the inputs on which the order of
\* the parents can make a difference
InitOrder ==
    /\ InitWith({<<"A", "B">>}, MaxInputOrder)
    /\ \A i \in 1..Len(input_data) : IsValid(input_data[i][1])

\* the statements of the rows of SpecGroup: P(A) and the four statements of
\* three literals with A, the span list of four members of the parent P(A)
GroupStatements ==
    {Parsed(u) : u \in {w \in Range(AllStatementsOf(<<"A", "B", "C">>)) :
                          "A" \in StrSet(w) /\ Cardinality(w) \in {1, 3}}}

\* three variables, rows over GroupStatements: the inputs on which a span
\* list of four members is evaluated with some of its members known
InitGroup ==
    /\ symbols = <<"A", "B", "C">>
    /\ input_data \in
          {SetToSeq(R) :
             R \in {Q \in RowSets(GroupStatements, MaxInputGroup) :
                      DistinctStatements(Q)}}
    /\ to_solve = {}
    /\ known = EmptyDict
    /\ all_statements = <<>>
    /\ children = EmptyDict
    /\ has_changed = TRUE
    /\ parents = <<>>
    /\ pidx = 0
    /\ spans = {}
    /\ passes = 0
    /\ before = EmptyDict
    /\ steps = {}
    /\ answer = NotEnoughInformation
    /\ pc = "record"

\* one to three variables, rows P(x) for declared variables x: the inputs
\* on which the universe and the hierarchy of every size are built
InitShape ==
    /\ symbols \in SymbolListsWide
    /\ input_data \in
          {SetToSeq(R) :
             R \in {Q \in RowSets({ParseSymbols({symbols[i]}) :
                                     i \in 1..Len(symbols)}, MaxInputShape) :
                      DistinctStatements(Q)}}
    /\ to_solve = {}
    /\ known = EmptyDict
    /\ all_statements = <<>>
    /\ children = EmptyDict
    /\ has_changed = TRUE
    /\ parents = <<>>
    /\ pidx = 0
    /\ spans = {}
    /\ passes = 0
    /\ before = EmptyDict
    /\ steps = {}
    /\ answer = NotEnoughInformation
    /\ pc = "record"

\* the lists of at most k rows in every order, a statement given any number
\* of times
InputRowsRepeated(syms, k) ==
    UNION {[1..len -> InputStatements(syms) \X Values] : len \in 0..k}

\* one or two variables, rows that may repeat a statement
InitDup ==
    /\ symbols \in SymbolLists
    /\ input_data \in InputRowsRepeated(symbols, MaxInputDup)
    /\ to_solve = {}
    /\ known = EmptyDict
    /\ all_statements = <<>>
    /\ children = EmptyDict
    /\ has_changed = TRUE
    /\ parents = <<>>
    /\ pidx = 0
    /\ spans = {}
    /\ passes = 0
    /\ before = EmptyDict
    /\ steps = {}
    /\ answer = NotEnoughInformation
    /\ pc = "record"

(* ---------------------------- actions ---------------------------------- *)

\* lines 95-97: record the known values
RecordKnown ==
    /\ pc = "record"
    /\ known' = RecordRows(EmptyDict, input_data, 1)
    /\ pc' = "build"
    /\ UNCHANGED <<symbols, input_data, to_solve, all_statements, children,
                   has_changed, parents, pidx, spans, passes, before, steps, answer>>

\* lines 106-130: the universe, the subset hierarchy, has_changed = True
BuildStatements ==
    /\ pc = "build"
    /\ all_statements' = AllStatementsOf(symbols)
    /\ children' = ChildrenOf(all_statements')
    /\ parents' = Reversed(all_statements')
    /\ has_changed' = TRUE
    /\ pc' = "while"
    /\ UNCHANGED <<symbols, input_data, to_solve, known, pidx, spans, passes, before,
                   steps, answer>>

\* faulty variant of ComplementRule: "has_changed = False" (line 132) left
\* out
ComplementRuleKeepsFlag ==
    /\ pc = "while"
    /\ has_changed
    /\ passes' = passes + 1
    /\ before' = known
    /\ known' = Update(known, Updates(known))
    /\ has_changed' = (has_changed \/ Updates(known) # {})
    /\ steps' = steps \cup InverseSteps(known)
    /\ pidx' = 0
    /\ spans' = {}
    /\ pc' = "parents"
    /\ UNCHANGED <<symbols, input_data, to_solve, all_statements, children,
                   parents, answer>>

\* lines 131-145: the loop is entered, has_changed = False, and the
\* complement rule updates known
ComplementRule ==
    /\ pc = "while"
    /\ has_changed
    /\ passes' = passes + 1
    /\ before' = known
    /\ known' = Update(known, Updates(known))
    /\ has_changed' = (Updates(known) # {})
    /\ steps' = steps \cup InverseSteps(known)
    /\ pidx' = 0
    /\ spans' = {}
    /\ pc' = "parents"
    /\ UNCHANGED <<symbols, input_data, to_solve, all_statements, children,
                   parents, answer>>

\* lines 149-161: the for loop takes the next parent and groups its children
NextParent ==
    /\ pc = "parents"
    /\ spans = {}
    /\ pidx < Len(parents)
    /\ pidx' = pidx + 1
    /\ spans' = SpansOf(children, parents[pidx'])
    /\ UNCHANGED <<symbols, input_data, to_solve, known, all_statements,
                   children, has_changed, parents, passes, before, steps, answer, pc>>

\* lines 165-192: one span list of the current parent is evaluated; lists of
\* fewer literals come first, lists of equal length in the order of the dict
\* spans, which depends on the string hashes and is left open
EvalSpan ==
    /\ pc = "parents"
    /\ spans # {}
    /\ \E span \in spans :
        /\ \A other \in spans :
              Cardinality(Only(span)) <= Cardinality(Only(other))
        /\ LET r == SolveSpan(known, parents[pidx], span)
           IN  /\ known' = r.known
               /\ has_changed' = (has_changed \/ r.has_changed)
               /\ steps' = steps \cup r.steps
        /\ spans' = spans \ {span}
    /\ UNCHANGED <<symbols, input_data, to_solve, all_statements, children,
                   parents, pidx, passes, before, answer, pc>>

\* line 149: the for loop over the parents is exhausted
EndPass ==
    /\ pc = "parents"
    /\ spans = {}
    /\ pidx = Len(parents)
    /\ pc' = "while"
    /\ UNCHANGED <<symbols, input_data, to_solve, known, all_statements,
                   children, has_changed, parents, pidx, spans, passes, before, steps,
                   answer>>

\* line 131: the while test fails and the loop is left
ExitLoop ==
    /\ pc = "while"
    /\ ~has_changed
    /\ pc' = "report"
    /\ UNCHANGED <<symbols, input_data, to_solve, known, all_statements,
                   children, has_changed, parents, pidx, spans, passes, before, steps,
                   answer>>

\* lines 109 and 203: the query is made a Statement and looked up.  The query
\* takes no part in propagation, so it is drawn where it is read.
Report ==
    /\ pc = "report"
    /\ \E q \in InputStatementsOver(all_statements, symbols) :
        /\ to_solve' = q
        /\ answer' = Lookup(known, q)
    /\ pc' = "done"
    /\ UNCHANGED <<symbols, input_data, known, all_statements, children,
                   has_changed, parents, pidx, spans, passes, before, steps>>

Next ==
    \/ RecordKnown
    \/ BuildStatements
    \/ ComplementRule
    \/ NextParent
    \/ EvalSpan
    \/ EndPass
    \/ ExitLoop
    \/ Report

Spec == Init /\ [][Next]_vars

SpecWide == InitWide /\ [][Next]_vars

SpecOrder == InitOrder /\ [][Next]_vars

SpecGroup == InitGroup /\ [][Next]_vars

SpecShape == InitShape /\ [][Next]_vars

SpecDup == InitDup /\ [][Next]_vars

TypeOK ==
    /\ pc \in {"record", "build", "while", "parents", "report", "done"}
    /\ has_changed \in BOOLEAN
    /\ \A k \in DOMAIN known : known[k] \in Int

(* ---------------------------- vocabulary of the properties ------------- *)

\* a statement with the given strings, for look-ups (which go by StmtEq)
P(strs) == ParseSymbols(strs)

\* the statement s is given by a row of input_data
Supplied(s) == \E i \in 1..Len(input_data) : StmtEq(input_data[i][1], s)

\* the mapping the rows of input_data record
InputValue(s) == Get(RecordRows(EmptyDict, input_data, 1), s)

\* every member of the span list has a value
FullyKnown(dict, span) == \A e \in span : Has(dict, e)

\* every single-literal row names a declared variable x, none the token
\* "!x" (whose complement the complement rule forms as "!!x", see C2)
SinglesAsserted ==
    \A i \in 1..Len(input_data) :
        Cardinality(input_data[i][1]) = 1
            => Only(input_data[i][1]).token \in Range(symbols)

\* solve has left the while loop
LoopLeft == pc \in {"report", "done"}

\* a printed deduction of statement s by the given rule
SolvedBy(rule, s) == {st \in steps : st.rule = rule /\ StmtEq(st.stmt, s)}

(* ---------------------------- C1 --------------------------------------- *)

C1_Scenario ==
    /\ symbols = <<"A", "B">>
    /\ Len(input_data) = 3
    /\ Supplied(P({"A"})) /\ Supplied(P({"B"})) /\ Supplied(P({"A", "B"}))

\* C1: with variables A, B and the rows P(A)=a, P(B)=b, P(A & B)=c, when
\* solve ends known holds P(!A) = 1-a and P(!B) = 1-b, solved by inverse,
\* and P(A & !B) = a-c, solved by difference with parent P(A); the answer to
\* the query P(A & !B) is a-c.
C1_ScenarioDeduced ==
    (C1_Scenario /\ pc = "done") =>
        LET a == InputValue(P({"A"}))
            b == InputValue(P({"B"}))
            c == InputValue(P({"A", "B"}))
        IN  /\ Lookup(known, P({"!A"})) = <<One - a>>
            /\ \E st \in SolvedBy("inverse", P({"!A"})) : st.value = One - a
            /\ Lookup(known, P({"!B"})) = <<One - b>>
            /\ \E st \in SolvedBy("inverse", P({"!B"})) : st.value = One - b
            /\ Lookup(known, P({"A", "!B"})) = <<a - c>>
            /\ \E st \in SolvedBy("difference", P({"A", "!B"})) :
                  st.value = a - c /\ StmtEq(st.parent, P({"A"}))
            /\ StmtEq(to_solve, P({"A", "!B"})) => answer = <<a - c>>

C1_Witness ==
    /\ C1_Scenario
    /\ pc = "done"
    /\ InputValue(P({"A"})) = 1 /\ InputValue(P({"A", "B"})) = 0
    /\ StmtEq(to_solve, P({"A", "!B"}))
    /\ answer = <<1>>

(* ---------------------------- C2 --------------------------------------- *)

\* C2: when solve ends, for every single-literal statement in known, also one
\* supplied as the token "!x", the statement of the complementary literal is
\* in known (P(x) for P(!x)), and where the complement rule solved one of the
\* two, their values add up to 1.
C2_ComplementKnown ==
    LoopLeft =>
        \A i \in 1..Len(symbols) :
            LET pos == P({symbols[i]})
                neg == P({"!" \o symbols[i]})
            IN  /\ Has(known, pos) <=> Has(known, neg)
                /\ (Has(known, pos) /\ Has(known, neg)
                      /\ SolvedBy("inverse", pos) \cup SolvedBy("inverse", neg) # {})
                     => Get(known, pos) + Get(known, neg) = One

(* ---------------------------- C3 --------------------------------------- *)

\* C3: a statement with a variable and its negation never enters known:
\* every key of known passes the validity check.
C3_MalformedRejected == \A k \in DOMAIN known : IsValid(k)

(* ---------------------------- C4 --------------------------------------- *)

\* the entries propagation has added to what the rows recorded
Added == Cardinality(DOMAIN known) - Cardinality(DOMAIN RecordRows(EmptyDict, input_data, 1))

\* C4: the while loop terminates.  After a pass, has_changed (another pass
\* follows) holds exactly if the pass added an entry to known, and after a
\* pass that added nothing only leaving the loop is possible; every pass but
\* the current one added an entry, known never has more keys than the
\* universe and the rows with their inverses provide, and solve can always
\* take a step until it has ended.
C4_Terminates ==
    /\ (pc = "while" /\ passes > 0) =>
          /\ has_changed <=> DOMAIN known # DOMAIN before
          /\ has_changed => ENABLED ComplementRule /\ ~ENABLED ExitLoop
          /\ ~has_changed => ENABLED ExitLoop /\ ~ENABLED ComplementRule
    /\ pc \notin {"record", "build"} =>
          /\ passes <= Added + 1
          /\ Cardinality(DOMAIN known) <= Len(all_statements) + 2 * Len(input_data)
          /\ pidx <= Len(parents)
    /\ pc = "done" \/ ENABLED Next

C4_Witness ==
    /\ pc = "done"
    /\ passes = 3
    /\ DOMAIN known = DOMAIN before

(* ---------------------------- C5 --------------------------------------- *)

\* C5: every step of solve keeps every entry of known with its value: no
\* entry is removed and none is assigned a different value.
C5_Monotonic ==
    [][\A k \in DOMAIN known : k \in DOMAIN known' /\ known'[k] = known[k]]_vars

C5_Witness ==
    /\ pc = "done"
    /\ \E st \in steps : st.rule = "inverse"
    /\ \E st \in steps : st.rule = "difference"
    /\ \E st \in steps : st.rule = "union"

(* ---------------------------- C6 --------------------------------------- *)

C6_Scenario ==
    /\ symbols = <<"A", "B">>
    /\ Len(input_data) = 1
    /\ Supplied(P({"A"}))

\* C6: the answer is the query's value exactly if the query is a key of the
\* final known, and "Not enough information" otherwise; with variables A, B
\* and only P(A) supplied, P(A & B) has no value in any state and the answer
\* to the query P(A & B) is "Not enough information".
C6_NotEnoughInformation ==
    /\ pc = "done" =>
          /\ Has(known, to_solve) => answer = <<Get(known, to_solve)>>
          /\ ~Has(known, to_solve) => answer = NotEnoughInformation
    /\ C6_Scenario => ~Has(known, P({"A", "B"}))
    /\ (C6_Scenario /\ pc = "done" /\ StmtEq(to_solve, P({"A", "B"})))
          => answer = NotEnoughInformation

C6_Witness ==
    /\ C6_Scenario
    /\ pc = "done"
    /\ StmtEq(to_solve, P({"A", "B"}))
    /\ answer = NotEnoughInformation
    /\ Has(known, P({"!A"}))

(* ---------------------------- C7 --------------------------------------- *)

AltOrders(order) ==
    LET block(len) == {i \in 1..Len(order) : Cardinality(order[i]) = len}
    IN  UNION {{[i \in 1..Len(order) |->
                    IF i \in block(len) THEN order[f[i]] ELSE order[i]] :
                f \in Permutations(block(len))} :
               len \in {Cardinality(order[i]) :
                          i \in {j \in 1..Len(order) : children[order[j]] # {}}}}

\* the entries of a mapping, keys by their strings
Entries(dict) == {<<StrSet(k), dict[k]>> : k \in DOMAIN dict}
Keys(dict) == {StrSet(k) : k \in DOMAIN dict}

\* the final known of solve run with the parents visited in the given order
FinalKnown(order) ==
    Propagate(RecordRows(EmptyDict, input_data, 1), order, children)

\* C8 as stated: with the parents visited in any other order that is
\* non-increasing in the number of literals, the final known is the same:
\* the same statements with the same values (stated for the inputs with
\* SinglesAsserted, where C2 plays no part).
C8_SameFinalMapping ==
    (pc = "report" /\ SinglesAsserted) =>
        \A order \in AltOrders(parents) : Entries(FinalKnown(order)) = Entries(known)

\* C8 amended: with the parents visited in any other order that is
\* non-increasing in the number of literals, the final known has the same
\* statements as keys.
C8_SameFinalKeys ==
    pc = "report" =>
        \A order \in AltOrders(parents) : Keys(FinalKnown(order)) = Keys(known)

C8_Witness ==
    /\ pc = "report"
    /\ \E order \in AltOrders(parents) :
          /\ order # parents
          /\ Entries(FinalKnown(order)) # Entries(known)
          /\ Keys(FinalKnown(order)) = Keys(known)

(* ---------------------------- C9 --------------------------------------- *)

\* C9: one more full pass from the known that solve holds when the loop is
\* left adds no entry and changes no value.
C9_Idempotent ==
    LoopLeft =>
        /\ OnePass(known, parents, children).known = known
        /\ ~OnePass(known, parents, children).has_changed

C9_Witness ==
    /\ pc = "done"
    /\ passes = 3
    /\ \E st \in steps : st.rule = "difference"
    /\ OnePass(known, parents, children).known = known

(* ---------------------------- C10 -------------------------------------- *)

RECURSIVE Power(_, _)
Power(b, e) == IF e = 0 THEN 1 ELSE b * Power(b, e - 1)

\* the strings of the 2n literals of the declared variables
Literals == UNION {{symbols[i], "!" \o symbols[i]} : i \in 1..Len(symbols)}

\* the non-empty sets of literals with no variable in both polarities
ValidLiteralSets ==
    {L \in SUBSET Literals :
        /\ L # {}
        /\ \A i \in 1..Len(symbols) : ~({symbols[i], "!" \o symbols[i]} \subseteq L)}

\* C10: for n declared variables all_statements holds exactly 3^n - 1
\* pairwise distinct statements: every non-empty set of literals with no
\* variable in both polarities, and nothing else.
C10_UniverseSize ==
    pc \notin {"record", "build"} =>
        /\ Len(all_statements) = Power(3, Len(symbols)) - 1
        /\ Cardinality({StrSet(s) : s \in Range(all_statements)}) = Len(all_statements)
        /\ {StrSet(s) : s \in Range(all_statements)} = ValidLiteralSets

C10_Witness ==
    /\ pc = "done"
    /\ Len(symbols) = 3
    /\ Len(all_statements) = 26

(* ---------------------------- C11 -------------------------------------- *)

\* the declared variable x has a row P(x) and no row P(!x)
C11_Case(x) == Supplied(P({x})) /\ ~Supplied(P({"!" \o x}))

\* C11: for every declared variable x with P(x) = p supplied and P(!x) not
\* supplied, from the first pass of the complement rule on, and so when solve
\* ends, known holds P(!x) with the value 1 - p, printed as solved by inverse.
C11_ComplementValue ==
    passes >= 1 =>
        \A i \in 1..Len(symbols) :
            C11_Case(symbols[i]) =>
                LET neg == P({"!" \o symbols[i]})
                    p == InputValue(P({symbols[i]}))
                IN  /\ Lookup(known, neg) = <<One - p>>
                    /\ \E st \in SolvedBy("inverse", neg) : st.value = One - p

C11_Witness ==
    /\ pc = "done"
    /\ symbols = <<"A", "B">>
    /\ C11_Case("A") /\ C11_Case("B")
    /\ InputValue(P({"A"})) = 0 /\ InputValue(P({"B"})) = 1
    /\ Get(known, P({"!A"})) = 1 /\ Get(known, P({"!B"})) = 0

(* ---------------------------- evaluation of one span list -------------- *)

\* the span list the current step evaluates (the step is one of EvalSpan)
Evaluated == CHOOSE g \in spans : g \notin spans'

\* the members of a span list that are not in known
Unknowns(dict, span) == {e \in span : ~Has(dict, e)}

\* the step adds to known the entry of statement s with value v and leaves
\* every other entry as it is
AddsOnly(s, v) ==
    /\ ~Has(known, s)
    /\ Has(known', s) /\ Get(known', s) = v
    /\ \A k \in DOMAIN known : k \in DOMAIN known' /\ known'[k] = known[k]
    /\ \A k \in DOMAIN known' : k \in DOMAIN known \/ StmtEq(k, s)

(* ---------------------------- C12 -------------------------------------- *)

\* C12: difference mode.  Every step that evaluates a span list with the
\* parent in known and exactly one member u not in known adds u with the
\* value known[parent] minus the sum of the values of the other members, and
\* changes no other entry of known.
C12_DifferenceMode ==
    [][(pc = "parents" /\ spans' # spans /\ spans # {}) =>
          LET span == Evaluated
              parent == parents[pidx]
          IN  (Has(known, parent) /\ Cardinality(Unknowns(known, span)) = 1) =>
                 LET u == CHOOSE e \in Unknowns(known, span) : TRUE
                 IN  AddsOnly(u, Get(known, parent) - SumOf(known, span \ {u}))]_vars

\* difference mode has solved a member of a span list of four from the
\* parent and the three other members, which do not sum to 0
C12_Witness ==
    \E st \in steps :
        /\ st.rule = "difference"
        /\ Cardinality(st.span) = 4
        /\ SumOf(known, st.span \ {st.stmt}) = 2
        /\ Get(known, st.parent) = 1
        /\ Get(known, st.stmt) = 0 - 1

(* ---------------------------- C13 -------------------------------------- *)

\* C13: union mode.  Every step that evaluates a span list with the parent
\* not in known and every member in known adds the parent with the sum of
\* the values of all members, and changes no other entry of known.
C13_UnionMode ==
    [][(pc = "parents" /\ spans' # spans /\ spans # {}) =>
          LET span == Evaluated
              parent == parents[pidx]
          IN  (~Has(known, parent) /\ Unknowns(known, span) = {}) =>
                 AddsOnly(parent, SumOf(known, span))]_vars

\* union mode has solved a parent from a span list whose members have the
\* values 0 and 1
C13_Witness ==
    \E st \in steps :
        /\ st.rule = "union"
        /\ \E e, f \in st.span : Get(known, e) = 0 /\ Get(known, f) = 1
        /\ Get(known, st.stmt) = 1
        /\ ~Supplied(st.stmt)

(* ---------------------------- C14 -------------------------------------- *)

\* C14: every step that evaluates a span list with more than one member not
\* in known, the parent known or not, leaves known as it is, does not set
\* has_changed and prints no deduction.
C14_NoDeduction ==
    [][(pc = "parents" /\ spans' # spans /\ spans # {}) =>
          (Cardinality(Unknowns(known, Evaluated)) > 1 =>
              /\ known' = known
              /\ has_changed' = has_changed
              /\ steps' = steps)]_vars

\* the span lists of the current parent that have been evaluated
Done == SpansOf(children, parents[pidx]) \ spans

\* in a pass that has changed nothing so far, a list of four with two
\* members unknown has been evaluated for a parent that is known
C14_Witness ==
    /\ pc = "parents" /\ pidx > 0
    /\ ~has_changed
    /\ \E span \in Done :
          /\ Cardinality(span) = 4
          /\ Cardinality(Unknowns(known, span)) = 2
          /\ Has(known, parents[pidx])

(* ---------------------------- C15 -------------------------------------- *)

\* the literal set of x is a strict subset of the literal set of y
StrictSubset(x, y) == StrSet(x) \subseteq StrSet(y) /\ StrSet(x) # StrSet(y)

\* C15 as stated: for distinct universe statements x and y, x is in
\* children[y] exactly if the literal set of x is a strict subset of the
\* literal set of y, and every recorded child has fewer literals than its
\* parent.
C15_ChildrenStrictSubsets ==
    pc \notin {"record", "build"} =>
        \A x, y \in Range(all_statements) :
            /\ x # y => (x \in children[y] <=> StrictSubset(x, y))
            /\ x \in children[y] => Cardinality(x) < Cardinality(y)

\* C15 amended: for distinct universe statements x and y, x is in
\* children[y] exactly if the literal set of y is a strict subset of the
\* literal set of x, and every recorded child has more literals than its
\* parent; every universe statement is a key of children.
C15_ChildrenStrictSupersets ==
    pc \notin {"record", "build"} =>
        /\ DOMAIN children = Range(all_statements)
        /\ \A x, y \in Range(all_statements) :
            /\ x # y => (x \in children[y] <=> StrictSubset(y, x))
            /\ x \in children[y] => Cardinality(x) > Cardinality(y)

\* P(A) has children of two and of three literals, P(A & !B & C) has none
C15_Witness ==
    /\ pc = "done"
    /\ \E y, x2, x3 \in Range(all_statements) :
          /\ StrSet(y) = {"A"}
          /\ StrSet(x2) = {"A", "!B"} /\ x2 \in children[y]
          /\ StrSet(x3) = {"A", "!B", "C"} /\ x3 \in children[y]
          /\ x3 \in children[x2]
          /\ children[x3] = {}

(* ---------------------------- C16 -------------------------------------- *)

\* the sets that hold, for each variable of vs, the variable or its negation
PolarityChoices(vs) ==
    {c \in SUBSET UNION {{x, "!" \o x} : x \in vs} :
        \A x \in vs : (x \in c) # (("!" \o x) \in c)}

\* the variables a universe statement mentions
VariablesOf(s) == {v.token : v \in s}

\* C16: for every universe statement y and every span list built for it,
\* with k the number of variables of the list's span that y does not
\* mention (k >= 1), the members of the list are exactly the 2^k statements
\* made of the literals of y and one polarity of each of these k variables:
\* none missing, none twice, no other.
C16_GroupsArePolarityCombinations ==
    pc \notin {"record", "build"} =>
        \A y \in Range(all_statements) : \A g \in SpansOf(children, y) :
            LET new == VariablesOf(Only(g)) \ VariablesOf(y)
                k == Cardinality(new)
            IN  /\ k >= 1
                /\ VariablesOf(y) \subseteq VariablesOf(Only(g))
                /\ {StrSet(m) : m \in g}
                      = {StrSet(y) \cup c : c \in PolarityChoices(new)}
                /\ Cardinality({StrSet(m) : m \in g}) = Power(2, k)
                /\ Cardinality(g) = Power(2, k)

\* with three variables P(!A) has the span list of the four statements
\* P(!A & +-B & +-C) and two span lists of two statements
C16_Witness ==
    /\ pc = "done"
    /\ \E y \in Range(all_statements) :
          /\ StrSet(y) = {"!A"}
          /\ Cardinality(SpansOf(children, y)) = 3
          /\ \E g \in SpansOf(children, y) :
                /\ Cardinality(g) = 4
                /\ \E m \in g : StrSet(m) = {"!A", "!B", "C"}

(* ---------------------------- C17 -------------------------------------- *)

\* the statement is one of the universe: valid, not empty, its literals
\* among the 2n literals of the declared variables
InUniverse(k) ==
    /\ \E u \in Range(all_statements) : StmtEq(k, u)
    /\ k # {} /\ IsValid(k) /\ StrSet(k) \subseteq Literals

\* C17: every entry propagation adds to known (by the complement rule,
\* difference mode or union mode), that is every key of known that no row of
\* input_data supplied, is keyed by a statement of the universe.
C17_KeysInUniverse ==
    pc \notin {"record", "build"} =>
        \A k \in DOMAIN known : ~Supplied(k) => InUniverse(k)

(* ---------------------------- C18 -------------------------------------- *)

\* C18: the number of passes of the while loop, the last pass that changes
\* nothing included, never exceeds 3^n - 1 for n declared variables.
C18_PassesBounded == passes <= Power(3, Len(symbols)) - 1

\* solve has ended after as many passes as the bound allows (one variable,
\* two passes)
C18_Witness ==
    /\ pc = "done"
    /\ passes = Power(3, Len(symbols)) - 1

(* ---------------------------- C19 -------------------------------------- *)

\* C19: a universe statement without recorded children (these are the
\* statements that mention every declared variable) has no span list; while
\* it is the current parent no span list is left to evaluate, and no
\* deduction is printed with it as parent: union mode never gives it a
\* value.
C19_ChildlessParentSkipped ==
    pc \notin {"record", "build"} =>
        /\ \A S \in Range(all_statements) :
              /\ children[S] = {} <=> Cardinality(S) = Len(symbols)
              /\ children[S] = {} =>
                    /\ SpansOf(children, S) = {}
                    /\ SolvedBy("union", S) = {}
                    /\ \A st \in steps :
                          st.rule \in {"union", "difference"}
                              => ~StmtEq(st.parent, S)
        /\ (pc = "parents" /\ pidx > 0 /\ children[parents[pidx]] = {})
              => spans = {}

\* solve has ended, the complement rule has made a deduction, and a
\* statement without children, visited as parent in every pass, has no
\* value
C19_Witness ==
    /\ pc = "done"
    /\ Len(symbols) = 2
    /\ steps # {}
    /\ \E S \in Range(all_statements) :
          /\ children[S] = {}
          /\ ~Has(known, S)
          /\ StrSet(S) = {"A", "B"}

(* ---------------------------- C20 -------------------------------------- *)

\* the last row of input_data that gives the statement s
LastRow(s) ==
    CHOOSE i \in 1..Len(input_data) :
        /\ StmtEq(input_data[i][1], s)
        /\ \A j \in (i + 1)..Len(input_data) : ~StmtEq(input_data[j][1], s)

\* the mapping has one entry for each statement of the rows, with the value
\* of the last row that gives it, and no other entry
HoldsLastValues(dict) ==
    /\ \A i \in 1..Len(input_data) :
          LET s == input_data[i][1]
          IN  /\ Cardinality({k \in DOMAIN dict : StmtEq(k, s)}) = 1
              /\ Get(dict, s) = input_data[LastRow(s)][2]
    /\ \A k \in DOMAIN dict : Supplied(k)

\* C20: when rows give the same statement more than once, known as recorded
\* from the rows holds one entry for it, with the value of its last row;
\* the first pass starts from this mapping, and the entry keeps this value
\* to the end.
C20_LastWriteWins ==
    /\ (pc = "build" \/ (pc = "while" /\ passes = 0)) => HoldsLastValues(known)
    /\ passes = 1 => HoldsLastValues(before)
    /\ pc # "record" =>
          \A i \in 1..Len(input_data) :
              /\ Cardinality({k \in DOMAIN known :
                                 StmtEq(k, input_data[i][1])}) = 1
              /\ Get(known, input_data[i][1])
                    = input_data[LastRow(input_data[i][1])][2]

\* P(A) is given as 0 and then as 1: known holds P(A) = 1 and the complement
\* rule has deduced P(!A) = 0 from it
C20_Witness ==
    /\ pc = "done"
    /\ Len(input_data) = 2
    /\ StmtEq(input_data[1][1], P({"A"})) /\ input_data[1][2] = 0
    /\ StmtEq(input_data[2][1], P({"A"})) /\ input_data[2][2] = 1
    /\ Cardinality(DOMAIN known) = 2
    /\ Get(known, P({"A"})) = 1
    /\ Get(known, P({"!A"})) = 0

====
